---- MODULE Spec2Model ----
(***************************************************************************)
(* State-machine model of the two Shelly -> Victron D-Bus bridge programs: *)
(*   dbus-shelly-em.py             (family "EM": one process per device)   *)
(*   dbus-shelly-3em-smartmeter.py (family "3EM": one three-phase device)  *)
(*                                                                         *)
(* Numbers.  Python floats are held in fixed point: the float x is the     *)
(* integer x * FixedPoint (three decimals).  A JSON integer n of a device  *)
(* response is therefore Num(n * FixedPoint), and "/ 1000" is an integer   *)
(* division of that representation.                                        *)
(*                                                                         *)
(* Strings of the configuration file are sequences of one-character        *)
(* strings, so that strip(), isdigit(), lower() and int() are computed.    *)
(***************************************************************************)
EXTENDS Integers, Sequences, FiniteSets, TLC

VARIABLES
    cfg,        \* the configuration file read at startup (never written)
    mainpc,     \* position of the program's main(): "start", "join", "loop", "exited"
    exitCode,   \* exit status of the program (NoExit while it runs)
    pc,         \* per device: "unborn", "init", "loop", "dead"
    childExit,  \* per device: exit status of its process (NoExit while it runs)
    dbus,       \* per device: the VeDbusService paths and their values
    registered, \* per device: TRUE once the D-Bus paths were added in __init__
    channel_idx,\* per device: self.channel_idx (EM)
    lastUpdate, \* per device: self._lastUpdate (0 = never, else a timestamp)
    periodic,   \* per device: number of periodic _update timers registered
    jitter,     \* per device: TRUE while the one-shot _start_periodic timer is pending
    solTimer,   \* per device: "none", or the period class of the _signOfLife timer
    event,      \* what the last step was and what it was given (history)
    ncycles,    \* poll cycles run so far (bounded by MaxCycles)
    nwrites,    \* external bus writes so far (bounded by MaxExtWrites)
    running,    \* per device: the callback its main loop is inside ("idle": none)
    due,        \* per device: the timers that expired and wait for their dispatch
    outstanding,\* per device: poll cycles that began and did not return yet
    call        \* a call of one of the pure helpers: its arguments and result

vars == <<cfg, mainpc, exitCode, pc, childExit, dbus, registered, channel_idx,
          lastUpdate, periodic, jitter, solTimer, event, ncycles, nwrites,
          running, due, outstanding, call>>

\* the variables only the main-loop view and the helper calls change
loopvars == <<running, due, outstanding, call>>

(***************************************************************************)
(* Bounds of the model and constants of the programs.                      *)
(***************************************************************************)
MaxCycles == 3
MaxExtWrites == 1

REFRESH_INTERVAL_MS == 500
UpdateIndexModulus == 256
WhPerKWh == 1000

FixedPoint == 10 * 10 * 10
NoExit == 0 - 1

(***************************************************************************)
(* JSON values as Python sees them.                                        *)
(***************************************************************************)
Num(n) == [t |-> "num", v |-> n]
Whole(n) == Num(n * FixedPoint)
JNull == [t |-> "null", v |-> 0]
JAbsent == [t |-> "absent", v |-> 0]
JStr == [t |-> "str", v |-> 0]
JList == [t |-> "list", v |-> 0]
JBool(b) == [t |-> "bool", v |-> IF b THEN 1 ELSE 0]
\* the non-finite floats (json accepts NaN and Infinity, float() accepts "nan", "inf")
JNaN == [t |-> "nan", v |-> 0]
JInf == [t |-> "inf", v |-> 0]
NonFinite == {"nan", "inf"}

Ok(val) == [exc |-> "none", val |-> val]
Raise(e) == [exc |-> e, val |-> JNull]

\* bool(x)
PyTruthy(x) ==
    CASE x.t = "num" -> x.v # 0
      [] x.t = "bool" -> x.v = 1
      [] x.t = "null" -> FALSE
      [] OTHER -> TRUE

\* d.get(key, default) on the value found under key (JAbsent: no such key)
DictGet(x, default) == IF x.t = "absent" THEN default ELSE x

\* d[key]
DictIndex(x) == IF x.t = "absent" THEN Raise("KeyError") ELSE Ok(x)

\* x or 0
OrZero(x) == IF PyTruthy(x) THEN x ELSE Num(0)

\* float(x)
PyFloat(x) ==
    CASE x.t = "num" -> Ok(x)
      [] x.t \in NonFinite -> Ok(x)
      [] x.t = "bool" -> Ok(Num(x.v * FixedPoint))
      [] x.t = "str" -> Raise("ValueError")
      [] OTHER -> Raise("TypeError")

\* a conversion that would leave the watt-hours as they are
Div1000_Unconverted(x) ==
    IF x.t \in {"num", "bool"} \cup NonFinite THEN Ok(x) ELSE Raise("TypeError")

\* x / 1000
Div1000(x) ==
    CASE x.t = "num" -> Ok(Num(x.v \div WhPerKWh))
      [] x.t \in NonFinite -> Ok(x)
      [] x.t = "bool" -> Ok(Num((x.v * FixedPoint) \div WhPerKWh))
      [] OTHER -> Raise("TypeError")

\* float(em.get(field, 0) or 0)
FloatField(x) == PyFloat(OrZero(DictGet(x, Num(0))))

(***************************************************************************)
(* _calc_current: I = hypot(P, Q) / V, 0.0 for V <= 0 or non-finite input. *)
(* hypot is taken to whole units (floor), the quotient to three decimals   *)
(* (floor), computed by long division to stay within 32 bits.              *)
(***************************************************************************)
RECURSIVE IsqrtBetween(_, _, _)
IsqrtBetween(n, lo, hi) ==
    IF lo >= hi THEN lo
    ELSE LET mid == (lo + hi + 1) \div 2
         IN  IF mid * mid <= n THEN IsqrtBetween(n, mid, hi)
             ELSE IsqrtBetween(n, lo, mid - 1)

Isqrt(n) == IsqrtBetween(n, 0, IF n < 4096 THEN 64 ELSE 46340)

Hypot(a, b) ==
    LET ua == a \div FixedPoint
        ub == b \div FixedPoint
    IN  Isqrt(ua * ua + ub * ub)

\* a current that would keep the sign of the active power
_calc_current_Signed(power, reactive, voltage) ==
    LET p == OrZero(power)
        q == OrZero(reactive)
        v == OrZero(voltage)
    IN  IF p.t \in NonFinite \/ q.t \in NonFinite \/ v.t \in NonFinite THEN Num(0)
        ELSE IF v.v <= 0 THEN Num(0)
        ELSE LET a == Hypot(p.v, q.v) * FixedPoint
                 i == (a \div v.v) * FixedPoint + ((a % v.v) * FixedPoint) \div v.v
             IN  Num(IF p.v < 0 THEN 0 - i ELSE i)

_calc_current(power, reactive, voltage) ==
    LET p == OrZero(power)
        q == OrZero(reactive)
        v == OrZero(voltage)
    IN  IF p.t \in NonFinite \/ q.t \in NonFinite \/ v.t \in NonFinite THEN Num(0)
        ELSE IF v.v <= 0 THEN Num(0)
        ELSE LET a == Hypot(p.v, q.v) * FixedPoint
             IN  Num((a \div v.v) * FixedPoint + ((a % v.v) * FixedPoint) \div v.v)

(***************************************************************************)
(* The outcome of one HTTP GET, and the body of a response.                *)
(*   k: "ReadTimeout", "ConnectTimeout", "ConnectionError" (requests       *)
(*      exceptions) or "Response"; status: the HTTP status of a response;  *)
(*   body.shape: "invalid" (not JSON), "dict", "emptydict" ({}), "list"    *)
(*      (a non-empty JSON array);                                          *)
(*   body.emeters.shape: "list", "absent" (no such key), "notlist";        *)
(*   a reading's shape: "dict" or "notdict" (a JSON number).               *)
(***************************************************************************)
NoEmeters == [shape |-> "absent", items |-> <<>>]
NoBody == [shape |-> "invalid", mac |-> JAbsent, total_power |-> JAbsent,
           emeters |-> NoEmeters]
GetRaises(kind) == [k |-> kind, status |-> 0, body |-> NoBody]
Response(status, body) == [k |-> "Response", status |-> status, body |-> body]
Fetched(gets, data) == [exc |-> "none", gets |-> gets, data |-> data]
FetchRaised(gets, e) == [exc |-> e, gets |-> gets, data |-> NoBody]

\* r.raise_for_status(): 4xx and 5xx raise requests.HTTPError
RaisesForStatus(r) == r.status >= 400

\* a fetch that would retry after any failed GET, not only after a read timeout
_getShellyData_RetryAnyFailure(r1, r2) ==
    LET tried == IF r1.k # "Response" THEN <<r1, r2>> ELSE <<r1>>
        r == tried[Len(tried)]
        gets == [i \in 1..Len(tried) |-> tried[i].k]
    IN  IF r.k # "Response" THEN FetchRaised(gets, r.k)
        ELSE IF RaisesForStatus(r) THEN FetchRaised(gets, "HTTPError")
        ELSE IF r.body.shape \notin {"dict", "emptydict"}
             THEN FetchRaised(gets, "ValueError")
        ELSE Fetched(gets, r.body)

\* DbusShellyEmService._getShellyData: one retry after a read timeout only
_getShellyDataEM(r1, r2) ==
    LET tried == IF r1.k = "ReadTimeout" THEN <<r1, r2>> ELSE <<r1>>
        r == tried[Len(tried)]
        gets == [i \in 1..Len(tried) |-> tried[i].k]
    IN  IF r.k # "Response" THEN FetchRaised(gets, r.k)
        ELSE IF RaisesForStatus(r) THEN FetchRaised(gets, "HTTPError")
        ELSE IF r.body.shape = "invalid" THEN FetchRaised(gets, "ValueError")
        ELSE IF r.body.shape \notin {"dict", "emptydict"}
             THEN FetchRaised(gets, "ValueError")
        ELSE Fetched(gets, r.body)

\* DbusShelly3emService._getShellyData: one GET, "if not meter_data" raises
_getShellyData3EM(r1) ==
    LET gets == <<r1.k>>
    IN  IF r1.k # "Response" THEN FetchRaised(gets, r1.k)
        ELSE IF RaisesForStatus(r1) THEN FetchRaised(gets, "HTTPError")
        ELSE IF r1.body.shape = "invalid" THEN FetchRaised(gets, "ValueError")
        ELSE IF r1.body.shape = "emptydict" THEN FetchRaised(gets, "ValueError")
        ELSE Fetched(gets, r1.body)

(***************************************************************************)
(* The D-Bus paths.  "/UpdateIndex" holds the plain integer Num(k); every  *)
(* other path holds a fixed-point float or whatever a sample carried.      *)
(***************************************************************************)
UpdateIndex == "/UpdateIndex"
Phases(fam) == IF fam = "EM" THEN {"L1"} ELSE {"L1", "L2", "L3"}
PhasePath(ph, q) == "/Ac/" \o ph \o "/" \o q

\* the paths handed to the service as "paths" (all registered writeable)
PathsEM ==
    {"/Ac/Energy/Forward", "/Ac/Energy/Reverse", "/Ac/Power", "/Ac/Current",
     "/Ac/Voltage", "/Ac/L1/Voltage", "/Ac/L1/Current", "/Ac/L1/Power"}
Paths3EM ==
    {"/Ac/Energy/Forward", "/Ac/Energy/Reverse", "/Ac/Power", "/Ac/Current",
     "/Ac/Voltage"}
    \cup {PhasePath(ph, q) : ph \in {"L1", "L2", "L3"},
            q \in {"Voltage", "Current", "Power", "Energy/Forward", "Energy/Reverse"}}
WriteablePaths(fam) == IF fam = "EM" THEN PathsEM ELSE Paths3EM

\* the service right after __init__: every path 0, /UpdateIndex 0
InitialDbus(fam) ==
    [p \in WriteablePaths(fam) \cup {UpdateIndex} |-> Num(0)]

\* an increment that would not wrap
IncrementUpdateIndex_NoWrap(db) ==
    [db EXCEPT ![UpdateIndex] = Num(db[UpdateIndex].v + 1)]

\* self._dbusservice["/UpdateIndex"] = (self._dbusservice["/UpdateIndex"] + 1) % 256
IncrementUpdateIndex(db) ==
    [db EXCEPT ![UpdateIndex] = Num((db[UpdateIndex].v + 1) % UpdateIndexModulus)]

\* the except clause that sets the power values to 0
ZeroingExceptions == {"ValueError", "ConnectionError", "ReadTimeout", "ConnectTimeout"}

ZeroedPathsEM ==
    {"/Ac/L1/Power", "/Ac/Voltage", "/Ac/Current", "/Ac/L1/Voltage",
     "/Ac/L1/Current", "/Ac/Power"}
ZeroedPaths3EM == {"/Ac/L1/Power", "/Ac/L2/Power", "/Ac/L3/Power", "/Ac/Power"}

ZeroOutputs(db, paths) ==
    IncrementUpdateIndex([p \in DOMAIN db |-> IF p \in paths THEN Num(0) ELSE db[p]])

\* the two except clauses of _update, given what the try block left behind
HandleException(db, exc, zeroed) ==
    IF exc \in ZeroingExceptions THEN ZeroOutputs(db, zeroed) ELSE db

(***************************************************************************)
(* One poll cycle.  A cycle's result: the service's paths afterwards, the  *)
(* GETs issued, the exception raised in the try block ("none" if none),    *)
(* how the cycle ended ("published", "skipped", "zeroed", "fault") and the *)
(* is_valid flag the sample carried.                                       *)
(***************************************************************************)
Cycle(db, gets, exc, outcome, valid) ==
    [db |-> db, gets |-> gets, exc |-> exc, outcome |-> outcome, valid |-> valid]

Caught(db, gets, exc, valid, zeroed) ==
    Cycle(HandleException(db, exc, zeroed), gets, exc,
          IF exc \in ZeroingExceptions THEN "zeroed" ELSE "fault", valid)

RECURSIVE FirstRaisedFrom(_, _)
FirstRaisedFrom(rs, i) ==
    IF i > Len(rs) THEN "none"
    ELSE IF rs[i].exc # "none" THEN rs[i].exc
    ELSE FirstRaisedFrom(rs, i + 1)
FirstRaised(rs) == FirstRaisedFrom(rs, 1)

\* lines 317-332 of dbus-shelly-em.py: the writes of a good sample
PublishEM(db, p, v, i, total_kwh, total_returned_kwh) ==
    IncrementUpdateIndex(
        [db EXCEPT !["/Ac/Power"] = p, !["/Ac/Voltage"] = v, !["/Ac/Current"] = i,
                   !["/Ac/L1/Power"] = p, !["/Ac/L1/Voltage"] = v,
                   !["/Ac/L1/Current"] = i,
                   !["/Ac/Energy/Forward"] = total_kwh,
                   !["/Ac/Energy/Reverse"] = total_returned_kwh])

\* DbusShellyEmService._update
_updateEM(db, ch, r1, r2) ==
    LET f == _getShellyDataEM(r1, r2)
        em_list == f.data.emeters
        em == em_list.items[ch + 1]
        p == FloatField(em.power)
        v == FloatField(em.voltage)
        q == FloatField(em.reactive)
        total == FloatField(em.total)
        returned == FloatField(em.total_returned)
        exc == FirstRaised(<<p, v, q, total, returned>>)
        i == _calc_current(p.val, q.val, v.val)
    IN  IF f.exc # "none" THEN Caught(db, f.gets, f.exc, JAbsent, ZeroedPathsEM)
        ELSE IF em_list.shape # "list" \/ Len(em_list.items) <= ch
             THEN Caught(db, f.gets, "ValueError", JAbsent, ZeroedPathsEM)
        ELSE IF em.shape # "dict"
             THEN Caught(db, f.gets, "AttributeError", JAbsent, ZeroedPathsEM)
        ELSE IF ~PyTruthy(DictGet(em.is_valid, JBool(TRUE)))
             THEN Cycle(db, f.gets, "none", "skipped", em.is_valid)
        ELSE IF exc # "none" THEN Caught(db, f.gets, exc, em.is_valid, ZeroedPathsEM)
        ELSE Cycle(PublishEM(db, p.val, v.val, i, Div1000(total.val).val,
                             Div1000(returned.val).val),
                   f.gets, "none", "published", em.is_valid)

(***************************************************************************)
(* The three-phase service writes path by path from the raw sample; an     *)
(* exception part-way leaves the earlier writes in place.                  *)
(***************************************************************************)
PhaseName(k) == <<"L1", "L2", "L3">>[k]

\* meter_data["emeters"][k - 1][field]
Field3(md, k, field) ==
    CASE md.shape # "dict" -> Raise("TypeError")
      [] md.emeters.shape = "absent" -> Raise("KeyError")
      [] md.emeters.shape = "notlist" -> Raise("TypeError")
      [] Len(md.emeters.items) < k -> Raise("IndexError")
      [] md.emeters.items[k].shape # "dict" -> Raise("TypeError")
      [] OTHER -> DictIndex(md.emeters.items[k][field])

\* meter_data["emeters"][k - 1][field] / 1000
Field3kWh(md, k, field) ==
    LET x == Field3(md, k, field)
    IN  IF x.exc # "none" THEN x ELSE Div1000(x.val)

\* lines 181-188: the L1 remap of the sample
ClampL1(remapL1) == IF remapL1 \in {1, 2, 3} THEN remapL1 ELSE 1

\* an exchange that would forget to keep the old first channel
SwapL1_Overwrite(items, remapL1) ==
    [k \in 1..Len(items) |-> IF k = 1 THEN items[remapL1] ELSE items[k]]

SwapL1(items, remapL1) ==
    [k \in 1..Len(items) |->
        IF k = 1 THEN items[remapL1]
        ELSE IF k = remapL1 THEN items[1]
        ELSE items[k]]

RemapL1(md, remapL1) ==
    IF remapL1 <= 1 THEN Ok(md)
    ELSE IF md.shape # "dict" THEN Raise("AttributeError")
    ELSE IF md.emeters.shape = "notlist" THEN Raise("TypeError")
    ELSE IF Len(md.emeters.items) >= 3
         THEN Ok([md EXCEPT !.emeters.items = SwapL1(md.emeters.items, remapL1)])
    ELSE Ok(md)

\* lines 191-218: the writes in the order the code makes them
Writes3EM(md) ==
    <<[path |-> "/Ac/Power",
       r |-> IF md.shape # "dict" THEN Raise("TypeError") ELSE DictIndex(md.total_power)]>>
    \o [k \in 1..3 |-> [path |-> PhasePath(PhaseName(k), "Voltage"),
                        r |-> Field3(md, k, "voltage")]]
    \o [k \in 1..3 |-> [path |-> PhasePath(PhaseName(k), "Current"),
                        r |-> Field3(md, k, "current")]]
    \o [k \in 1..3 |-> [path |-> PhasePath(PhaseName(k), "Power"),
                        r |-> Field3(md, k, "power")]]
    \o [k \in 1..3 |-> [path |-> PhasePath(PhaseName(k), "Energy/Forward"),
                        r |-> Field3kWh(md, k, "total")]]
    \o [k \in 1..3 |-> [path |-> PhasePath(PhaseName(k), "Energy/Reverse"),
                        r |-> Field3kWh(md, k, "total_returned")]]

RECURSIVE ApplyWrites(_, _, _)
ApplyWrites(db, steps, i) ==
    IF i > Len(steps) THEN [db |-> db, exc |-> "none"]
    ELSE IF steps[i].r.exc # "none" THEN [db |-> db, exc |-> steps[i].r.exc]
    ELSE ApplyWrites([db EXCEPT ![steps[i].path] = steps[i].r.val], steps, i + 1)

\* a + b on floats
PyAdd(a, b) ==
    IF a.t = "num" /\ b.t = "num" THEN Num(a.v + b.v)
    ELSE IF a.t = "nan" \/ b.t = "nan" THEN JNaN
    ELSE JInf

\* lines 219-229: the aggregates are read back from the phase paths
AggregateEnergy3EM(db) ==
    [db EXCEPT
        !["/Ac/Energy/Forward"] =
            PyAdd(PyAdd(db["/Ac/L1/Energy/Forward"], db["/Ac/L2/Energy/Forward"]),
                  db["/Ac/L3/Energy/Forward"]),
        !["/Ac/Energy/Reverse"] =
            PyAdd(PyAdd(db["/Ac/L1/Energy/Reverse"], db["/Ac/L2/Energy/Reverse"]),
                  db["/Ac/L3/Energy/Reverse"])]

\* the is_valid flag of a three-phase sample: false when a channel says false
ValidFlag3EM(md) ==
    IF md.shape = "dict" /\ md.emeters.shape = "list"
       /\ \E k \in 1..Len(md.emeters.items) :
             /\ md.emeters.items[k].shape = "dict"
             /\ md.emeters.items[k].is_valid = JBool(FALSE)
    THEN JBool(FALSE)
    ELSE JAbsent

\* DbusShelly3emService._update
_update3EM(db, remapL1, r1) ==
    LET f == _getShellyData3EM(r1)
        remapped == RemapL1(f.data, ClampL1(remapL1))
        written == ApplyWrites(db, Writes3EM(remapped.val), 1)
        valid == ValidFlag3EM(f.data)
    IN  IF f.exc # "none" THEN Caught(db, f.gets, f.exc, JAbsent, ZeroedPaths3EM)
        ELSE IF remapped.exc # "none"
             THEN Caught(db, f.gets, remapped.exc, valid, ZeroedPaths3EM)
        ELSE IF written.exc # "none"
             THEN Caught(written.db, f.gets, written.exc, valid, ZeroedPaths3EM)
        ELSE Cycle(IncrementUpdateIndex(AggregateEnergy3EM(written.db)),
                   f.gets, "none", "published", valid)

(***************************************************************************)
(* Configuration strings.  NoKey stands for a key the section lacks; the   *)
(* character SUPERSCRIPT TWO (a digit to str.isdigit, not to int) is       *)
(* written "^2".                                                           *)
(***************************************************************************)
NoKey == <<"<no key>">>
AsciiDigits == {"0", "1", "2", "3", "4", "5", "6", "7", "8", "9"}
Whitespace == {" "}

\* section.get(key, default)
ConfigGet(value, default) == IF value = NoKey THEN default ELSE value

RECURSIVE LStrip(_)
LStrip(s) == IF Len(s) > 0 /\ Head(s) \in Whitespace THEN LStrip(Tail(s)) ELSE s
RECURSIVE RStrip(_)
RStrip(s) ==
    IF Len(s) > 0 /\ s[Len(s)] \in Whitespace THEN RStrip(SubSeq(s, 1, Len(s) - 1))
    ELSE s
\* str.strip()
Strip(s) == RStrip(LStrip(s))

\* str.lower() on the letters the configurations use
LowerChar(c) ==
    CASE c = "G" -> "g" [] c = "R" -> "r" [] c = "I" -> "i" [] c = "D" -> "d"
      [] OTHER -> c
Lower(s) == [i \in 1..Len(s) |-> LowerChar(s[i])]

\* str.isdigit()
IsDigit(s) == Len(s) > 0 /\ \A i \in 1..Len(s) : s[i] \in AsciiDigits \cup {"^2"}

DigitValue(c) ==
    CASE c = "0" -> 0 [] c = "1" -> 1 [] c = "2" -> 2 [] c = "3" -> 3 [] c = "4" -> 4
      [] c = "5" -> 5 [] c = "6" -> 6 [] c = "7" -> 7 [] c = "8" -> 8 [] c = "9" -> 9

RECURSIVE DigitsValue(_, _)
DigitsValue(s, acc) ==
    IF Len(s) = 0 THEN acc ELSE DigitsValue(Tail(s), 10 * acc + DigitValue(Head(s)))

Parsed(n) == [exc |-> "none", n |-> n]
ParseRaised(e) == [exc |-> e, n |-> 0]

\* int(s): surrounding whitespace and one sign are accepted
PyInt(s) ==
    LET t == Strip(s)
        signed == Len(t) > 0 /\ Head(t) \in {"-", "+"}
        digits == IF signed THEN Tail(t) ELSE t
    IN  IF Len(digits) = 0 \/ \E i \in 1..Len(digits) : digits[i] \notin AsciiDigits
        THEN ParseRaised("ValueError")
        ELSE Parsed(IF signed /\ Head(t) = "-" THEN 0 - DigitsValue(digits, 0)
                    ELSE DigitsValue(digits, 0))

\* int(value or 0) of an already stripped string
PyIntOrZero(s) == IF Len(s) = 0 THEN Parsed(0) ELSE PyInt(s)

(***************************************************************************)
(* Startup of dbus-shelly-em.py: main() in the parent, then __init__ in    *)
(* each device's process.  A configuration is                              *)
(*   [family, hasGlobal, LogLevel, AccessType, hasOnPremise,               *)
(*    SignOfLifeLog, devices]                                              *)
(* and a device section [DeviceInstance, Role, Host, Channel, Position,    *)
(* L1Position, CustomName].                                                *)
(***************************************************************************)
GridStr == <<"g", "r", "i", "d">>
PvInverterStr == <<"p", "v", "i", "n", "v", "e", "r", "t", "e", "r">>
allowed_roles == {PvInverterStr, GridStr}
OnPremiseStr == <<"O", "n", "P", "r", "e", "m", "i", "s", "e">>
NoTimer == 0 - 1

\* main(), lines 475-491: the loop that validates the DeviceInstance values.
\* The result is the exit status that ends main(), NoExit if the loop passes.
\* A ValueError of int() is caught by main()'s except clause: main() returns.
RECURSIVE ValidateInstances(_, _, _)
ValidateInstances(devices, i, seen_instances) ==
    IF i > Len(devices) THEN NoExit
    ELSE LET inst_str == Strip(ConfigGet(devices[i].DeviceInstance, <<>>))
             inst == PyInt(inst_str)
         IN  IF Len(inst_str) = 0 \/ ~IsDigit(inst_str) THEN 1
             ELSE IF inst.exc # "none" THEN 0
             ELSE IF inst.n \in seen_instances THEN 1
             ELSE ValidateInstances(devices, i + 1, seen_instances \cup {inst.n})

\* load_config and the validation of main(): the exit status, NoExit to go on
MainStartEM(c) ==
    IF ~c.hasGlobal THEN 1
    ELSE IF Len(c.devices) = 0 THEN 1
    ELSE ValidateInstances(c.devices, 1, {})

\* a selection that would take any integer of the configuration as given
_getSelectedChannel_Unchecked(sec) ==
    LET parsed == PyIntOrZero(Strip(ConfigGet(sec.Channel, <<"0">>)))
    IN  IF parsed.exc # "none" THEN 0 ELSE parsed.n

\* DbusShellyEmService._getSelectedChannel
_getSelectedChannel(sec) ==
    LET parsed == PyIntOrZero(Strip(ConfigGet(sec.Channel, <<"0">>)))
        channel == IF parsed.exc # "none" THEN 0 ELSE parsed.n
    IN  IF channel \notin {0, 1} THEN 0 ELSE channel

\* the delay of the one-shot timer that starts the periodic polling
jitter_ms(deviceinstance, channel) ==
    LET j == (deviceinstance * 53 + channel * 17) % REFRESH_INTERVAL_MS
    IN  IF j = 0 THEN 50 ELSE j

\* how a process's startup ended: it died with an exit status, or it runs
Died(code, isRegistered) ==
    [alive |-> FALSE, exit |-> code, registered |-> isRegistered, channel |-> 0,
     jitter |-> 0, periodic |-> 0, sol |-> NoTimer]
Runs(ch, delay, nperiodic, solMinutes) ==
    [alive |-> TRUE, exit |-> NoExit, registered |-> TRUE, channel |-> ch,
     jitter |-> delay, periodic |-> nperiodic, sol |-> solMinutes]

\* a serial lookup that would fall back to a placeholder when the fetch fails
_getShellySerialEM_Placeholder(boot) == Ok(JStr)

\* DbusShellyEmService._getShellySerial: the "mac" of one bootstrap fetch;
\* the fetch's exception propagates, a missing or empty "mac" is a ValueError
_getShellySerialEM(boot) ==
    IF boot.exc # "none" THEN Raise(boot.exc)
    ELSE IF ~PyTruthy(DictGet(boot.data.mac, JNull)) THEN Raise("ValueError")
    ELSE Ok(boot.data.mac)

\* DbusShelly3emService._getShellySerial: meter_data["mac"] of one fetch
_getShellySerial3EM(boot) ==
    IF boot.exc # "none" THEN Raise(boot.exc)
    ELSE IF boot.data.shape # "dict" THEN Raise("TypeError")
    ELSE IF boot.data.mac = JAbsent THEN Raise("KeyError")
    ELSE IF ~PyTruthy(boot.data.mac) THEN Raise("ValueError")
    ELSE Ok(boot.data.mac)

\* DbusShellyEmService.__init__ in the device's process (run_device).  An
\* uncaught exception ends the process with status 1, like sys.exit(1).
InitEM(sec, signOfLifeLog, r1, r2) ==
    LET di_str == Strip(ConfigGet(sec.DeviceInstance, <<>>))
        deviceinstance == PyInt(di_str)
        role == Lower(Strip(ConfigGet(sec.Role, GridStr)))
        host == Strip(ConfigGet(sec.Host, <<>>))
        channel == _getSelectedChannel(sec)
        position == PyIntOrZero(Strip(ConfigGet(sec.Position, <<"0">>)))
        serial == _getShellySerialEM(_getShellyDataEM(r1, r2))
        sol_minutes == PyIntOrZero(Strip(ConfigGet(signOfLifeLog, <<"0">>)))
    IN  IF Len(di_str) = 0 \/ ~IsDigit(di_str) THEN Died(1, FALSE)
        ELSE IF deviceinstance.exc # "none" THEN Died(1, FALSE)
        ELSE IF role \notin allowed_roles THEN Died(1, FALSE)
        ELSE IF Len(host) = 0 THEN Died(1, FALSE)
        ELSE IF position.exc # "none" THEN Died(1, FALSE)
        ELSE IF serial.exc # "none" THEN Died(1, FALSE)
        ELSE IF sol_minutes.exc # "none" THEN Died(1, TRUE)
        ELSE Runs(channel, jitter_ms(deviceinstance.n, channel), 0,
                  IF sol_minutes.n > 0 THEN sol_minutes.n ELSE NoTimer)

(***************************************************************************)
(* Startup of dbus-shelly-3em-smartmeter.py: main() builds the service and *)
(* runs the main loop in the one process.  Exceptions of the constructor   *)
(* are caught and logged by main(), which then returns (status 0); exit(1) *)
(* and the KeyError of getLogLevel(), raised before the try, are not.      *)
(***************************************************************************)
Init3EM(c, r1) ==
    LET sec == c.devices[1]
        access_type == Strip(ConfigGet(c.AccessType, <<>>))
        deviceinstance == PyInt(sec.DeviceInstance)
        position == PyIntOrZero(Strip(ConfigGet(sec.Position, <<"0">>)))
        serial == _getShellySerial3EM(_getShellyData3EM(r1))
        sol == PyIntOrZero(Strip(ConfigGet(c.SignOfLifeLog, <<"0">>)))
    IN  IF c.LogLevel = NoKey THEN Died(1, FALSE)
        ELSE IF access_type = OnPremiseStr
                /\ (~c.hasOnPremise \/ Len(ConfigGet(sec.Host, <<>>)) = 0)
             THEN Died(0, FALSE)
        ELSE IF sec.DeviceInstance = NoKey \/ deviceinstance.exc # "none"
             THEN Died(0, FALSE)
        ELSE IF sec.CustomName = NoKey \/ sec.Role = NoKey THEN Died(0, FALSE)
        ELSE IF sec.Role \notin allowed_roles THEN Died(1, FALSE)
        ELSE IF position.exc # "none" THEN Died(0, FALSE)
        ELSE IF c.AccessType # OnPremiseStr THEN Died(0, FALSE)
        ELSE IF serial.exc # "none" THEN Died(0, FALSE)
        ELSE IF sol.exc # "none" \/ sol.n < 0 THEN Died(0, TRUE)
        ELSE Runs(0, 0, 1, sol.n)

\* int(self.config["ONPREMISE"].get("L1Position", "1")), 1 on ValueError
L1Position(sec) ==
    LET parsed == PyInt(ConfigGet(sec.L1Position, <<"1">>))
    IN  IF parsed.exc # "none" THEN 1 ELSE parsed.n

(***************************************************************************)
(* The configurations the model starts from.                               *)
(***************************************************************************)
HostStr == <<"h">>
NameStr == <<"m">>
Section(di, role, channel) ==
    [DeviceInstance |-> di, Role |-> role, Host |-> HostStr, Channel |-> channel,
     Position |-> NoKey, L1Position |-> NoKey, CustomName |-> NameStr]

DevA == Section(<<"4", "0">>, NoKey, NoKey)
DevB == Section(<<"4", "1">>, PvInverterStr, <<"1">>)

ConfigEM(devs) ==
    [family |-> "EM", hasGlobal |-> TRUE, LogLevel |-> NoKey, AccessType |-> NoKey,
     hasOnPremise |-> FALSE, SignOfLifeLog |-> <<"5">>, devices |-> devs]

\* Channel values besides NoKey (DevA) and "1" (DevB): 0, 1 between blanks,
\* out of range, negative, empty, blank, no integer
OtherChannels ==
    {<<"0">>, <<" ", "1", " ">>, <<"2">>, <<"-", "1">>, <<>>, <<" ">>,
     <<"1", ".", "0">>, <<"x">>}

\* DeviceInstance values that are no integer
NonIntegerInstances ==
    {NoKey, <<>>, <<"a", "b", "c">>, <<"4", ".", "0">>, <<"^2">>}

ConfigsEM ==
    {ConfigEM(<<DevA>>), ConfigEM(<<DevB>>), ConfigEM(<<DevA, DevB>>),
     ConfigEM(<<>>),
     [ConfigEM(<<DevA>>) EXCEPT !.hasGlobal = FALSE],
     [ConfigEM(<<DevA>>) EXCEPT !.SignOfLifeLog = NoKey],
     ConfigEM(<<[DevA EXCEPT !.DeviceInstance = <<" ", "4", "0", " ">>]>>),
     ConfigEM(<<[DevA EXCEPT !.Role = <<"b", "a", "t">>]>>),
     ConfigEM(<<[DevA EXCEPT !.Host = NoKey]>>),
     ConfigEM(<<DevA, [DevB EXCEPT !.Role = <<"b", "a", "t">>]>>),
     ConfigEM(<<DevA, [DevB EXCEPT !.DeviceInstance = <<"4", "0">>]>>)}
    \cup {ConfigEM(<<[DevA EXCEPT !.DeviceInstance = s]>>) : s \in NonIntegerInstances}
    \cup {ConfigEM(<<DevA, [DevB EXCEPT !.DeviceInstance = s]>>) :
            s \in NonIntegerInstances}
    \cup {ConfigEM(<<[DevA EXCEPT !.Channel = s]>>) : s \in OtherChannels}
    \cup {ConfigEM(<<[DevA EXCEPT !.DeviceInstance = <<"0">>]>>),
          ConfigEM(<<[DevA EXCEPT !.DeviceInstance = <<"2", "8", "3">>]>>),
          ConfigEM(<<[DevB EXCEPT !.DeviceInstance = <<"3", "1", "1">>]>>)}

Dev3 == [Section(<<"4", "0">>, GridStr, NoKey) EXCEPT !.L1Position = NoKey]

Config3EM(sec) ==
    [family |-> "3EM", hasGlobal |-> FALSE, LogLevel |-> <<"I", "N", "F", "O">>,
     AccessType |-> OnPremiseStr, hasOnPremise |-> TRUE, SignOfLifeLog |-> <<"5">>,
     devices |-> <<sec>>]

Configs3EM ==
    {Config3EM(Dev3),
     Config3EM([Dev3 EXCEPT !.L1Position = <<"2">>]),
     Config3EM([Dev3 EXCEPT !.L1Position = <<"3">>]),
     Config3EM([Dev3 EXCEPT !.L1Position = <<"5">>]),
     Config3EM([Dev3 EXCEPT !.L1Position = <<"x">>]),
     [Config3EM(Dev3) EXCEPT !.SignOfLifeLog = NoKey],
     [Config3EM(Dev3) EXCEPT !.LogLevel = NoKey],
     [Config3EM(Dev3) EXCEPT !.hasOnPremise = FALSE],
     [Config3EM(Dev3) EXCEPT !.AccessType = <<"C", "l", "o", "u", "d">>],
     Config3EM([Dev3 EXCEPT !.Role = <<"b", "a", "t">>])}
    \cup {Config3EM([Dev3 EXCEPT !.DeviceInstance = s]) :
            s \in NonIntegerInstances \ {<<>>}}

Configs == ConfigsEM \cup Configs3EM

\* the configurations whose poll cycles are explored with every response
CoreConfigs ==
    {ConfigEM(<<DevA>>), ConfigEM(<<DevB>>), Config3EM(Dev3),
     Config3EM([Dev3 EXCEPT !.L1Position = <<"2">>])}

(***************************************************************************)
(* The responses the devices give.                                         *)
(***************************************************************************)
Reading(valid, p, v, q, i, total, returned) ==
    [shape |-> "dict", is_valid |-> valid, power |-> p, voltage |-> v,
     reactive |-> q, current |-> i, total |-> total, total_returned |-> returned]

\* the sample of the specification's end-to-end example
ReadingA ==
    Reading(JBool(TRUE), Whole(1500), Whole(230), Whole(200), JAbsent,
            Whole(123456), Whole(0))
\* a sample after a restart of the device: its counters are below ReadingA's
ReadingB ==
    Reading(JAbsent, Whole(0 - 300), Whole(229), Whole(0), JAbsent,
            Whole(1000), Whole(500))
\* what the other channel of the device reports
ReadingC ==
    Reading(JBool(TRUE), Whole(40), Whole(228), Whole(30), JAbsent,
            Whole(777), Whole(7))

DefectsEM ==
    {[f |-> fld, x |-> x] : fld \in {"power", "total"},
                            x \in {JStr, JList, JNull, JAbsent}}
    \cup {[f |-> "is_valid", x |-> JBool(FALSE)], [f |-> "is_valid", x |-> JNull],
          [f |-> "voltage", x |-> Num(0)]}

SamplesEM ==
    {ReadingA, ReadingB, [ReadingA EXCEPT !.shape = "notdict"],
     [ReadingB EXCEPT !.is_valid = JBool(FALSE)]}
    \cup {[ReadingA EXCEPT ![d.f] = d.x] : d \in DefectsEM}

Body(totalPower, items) ==
    [shape |-> "dict", mac |-> JStr, total_power |-> totalPower,
     emeters |-> [shape |-> "list", items |-> items]]

OddBodies(b) ==
    {[b EXCEPT !.emeters = NoEmeters],
     [b EXCEPT !.emeters = [shape |-> "notlist", items |-> <<>>]],
     [b EXCEPT !.shape = "emptydict", !.mac = JAbsent, !.emeters = NoEmeters],
     [NoBody EXCEPT !.shape = "list"],
     NoBody}

\* channel 0 and channel 1 carry the same kind of sample, from different bases
Mirror(r) ==
    [r EXCEPT !.voltage = IF @ = Num(0) THEN @ ELSE Whole(228),
              !.total = IF @.t = "num" THEN Whole(777) ELSE @,
              !.total_returned = Whole(7)]

BodiesEM ==
    {Body(JAbsent, <<r, Mirror(r)>>) : r \in SamplesEM}
    \cup {Body(JAbsent, <<ReadingA, ReadingC>>), Body(JAbsent, <<ReadingC, ReadingB>>),
          Body(JAbsent, <<ReadingA>>), Body(JAbsent, <<>>)}
    \cup OddBodies(Body(JAbsent, <<ReadingA, ReadingC>>))

TransportErrors == {"ReadTimeout", "ConnectTimeout", "ConnectionError"}

GetsOf(bodies) ==
    {GetRaises(k) : k \in TransportErrors}
    \cup {Response(200, b) : b \in bodies}
    \cup {Response(500, NoBody)}

Reading3(v, i, p, total, returned) ==
    Reading(JAbsent, Whole(p), Whole(v), JAbsent, Whole(i), Whole(total),
            Whole(returned))

SampleX ==
    Body(Whole(900), <<Reading3(230, 1, 100, 1000, 0), Reading3(231, 2, 300, 2000, 100),
                       Reading3(232, 3, 500, 3000, 200)>>)
\* after a restart of the device: every counter is below SampleX's
SampleY ==
    Body(Whole(0 - 60), <<Reading3(227, 4, 0 - 10, 10, 1), Reading3(228, 5, 0 - 20, 20, 2),
                          Reading3(229, 6, 0 - 30, 30, 3)>>)

WithField(b, k, fld, x) == [b EXCEPT !.emeters.items[k][fld] = x]

Bodies3EM ==
    {SampleX, SampleY,
     [SampleX EXCEPT !.total_power = JAbsent],
     WithField(SampleX, 2, "voltage", JAbsent),
     WithField(SampleX, 3, "total", JStr),
     WithField(SampleY, 1, "voltage", JStr),
     WithField(SampleY, 1, "is_valid", JBool(FALSE)),
     [SampleX EXCEPT !.emeters.items = SubSeq(SampleX.emeters.items, 1, 2)]}
    \cup OddBodies(SampleX)

\* the responses tried for the bootstrap fetch of the serial number
BootGets ==
    {GetRaises("ReadTimeout"), GetRaises("ConnectionError"), Response(500, NoBody),
     Response(200, Body(JAbsent, <<ReadingA, ReadingC>>)),
     Response(200, [Body(JAbsent, <<ReadingA, ReadingC>>) EXCEPT !.mac = JAbsent]),
     Response(200, [Body(JAbsent, <<ReadingA, ReadingC>>) EXCEPT !.mac = JNull]),
     Response(200, [NoBody EXCEPT !.shape = "list"])}

(***************************************************************************)
(* How a fetch ended, in the terms of the failure taxonomy: decided by the *)
(* same tests the code makes on the last GET of the fetch.                 *)
(***************************************************************************)
FetchClass(fam, r, ch) ==
    CASE r.k \in TransportErrors -> "Unreachable"
      [] RaisesForStatus(r) -> "HttpError"
      [] r.body.shape \in {"invalid", "list"} -> "MalformedResponse"
      [] r.body.emeters.shape # "list" -> "NoChannelData"
      [] fam = "EM" /\ Len(r.body.emeters.items) <= ch -> "NoChannelData"
      [] fam = "3EM" /\ Len(r.body.emeters.items) < 3 -> "NoChannelData"
      [] OTHER -> "Sample"

(***************************************************************************)
(* The state machine.                                                      *)
(***************************************************************************)
Devices == DOMAIN pc
Family == cfg.family

Ev(op, d) ==
    [op |-> op, dev |-> d, gets |-> <<>>, exc |-> "none", outcome |-> "none",
     cls |-> "none", valid |-> JAbsent, path |-> "", value |-> JAbsent]

\* a startup, with the answers the device gives to the bootstrap fetch of
\* _getShellySerial: the GETs, the kind of the last one and the "mac" it carried
BootEv(op, d, gets, r) ==
    [Ev(op, d) EXCEPT !.gets = gets, !.cls = FetchClass(Family, r, 0),
                      !.value = r.body.mac]

NoCall == [fn |-> "none"]

InitProgram(configs) ==
    /\ cfg \in configs
    /\ mainpc = "start"
    /\ exitCode = NoExit
    /\ pc = [d \in 1..Len(cfg.devices) |-> "unborn"]
    /\ childExit = [d \in 1..Len(cfg.devices) |-> NoExit]
    /\ dbus = [d \in 1..Len(cfg.devices) |-> <<>>]
    /\ registered = [d \in 1..Len(cfg.devices) |-> FALSE]
    /\ channel_idx = [d \in 1..Len(cfg.devices) |-> 0]
    /\ lastUpdate = [d \in 1..Len(cfg.devices) |-> 0]
    /\ periodic = [d \in 1..Len(cfg.devices) |-> 0]
    /\ jitter = [d \in 1..Len(cfg.devices) |-> 0]
    /\ solTimer = [d \in 1..Len(cfg.devices) |-> NoTimer]
    /\ event = Ev("none", 0)
    /\ ncycles = 0
    /\ nwrites = 0
    /\ running = [d \in 1..Len(cfg.devices) |-> "idle"]
    /\ due = [d \in 1..Len(cfg.devices) |-> {}]
    /\ outstanding = [d \in 1..Len(cfg.devices) |-> 0]

InitWith(configs) == InitProgram(configs) /\ call = NoCall

\* what the end of a process's startup leaves of device d
\* a startup in which the death of one device's process would end them all
Started_SharedFate(d, res) ==
    /\ pc' = IF res.alive THEN [pc EXCEPT ![d] = "loop"]
             ELSE [e \in DOMAIN pc |-> "dead"]
    /\ childExit' = [childExit EXCEPT ![d] = res.exit]
    /\ registered' = [registered EXCEPT ![d] = res.registered]
    /\ dbus' = [dbus EXCEPT ![d] = IF res.registered THEN InitialDbus(Family) ELSE @]
    /\ channel_idx' = [channel_idx EXCEPT ![d] = res.channel]
    /\ jitter' = [jitter EXCEPT ![d] = res.jitter]
    /\ periodic' = [periodic EXCEPT ![d] = res.periodic]
    /\ solTimer' = [solTimer EXCEPT ![d] = res.sol]

Started(d, res) ==
    /\ pc' = [pc EXCEPT ![d] = IF res.alive THEN "loop" ELSE "dead"]
    /\ childExit' = [childExit EXCEPT ![d] = res.exit]
    /\ registered' = [registered EXCEPT ![d] = res.registered]
    /\ dbus' = [dbus EXCEPT ![d] = IF res.registered THEN InitialDbus(Family) ELSE @]
    /\ channel_idx' = [channel_idx EXCEPT ![d] = res.channel]
    /\ jitter' = [jitter EXCEPT ![d] = res.jitter]
    /\ periodic' = [periodic EXCEPT ![d] = res.periodic]
    /\ solTimer' = [solTimer EXCEPT ![d] = res.sol]

\* dbus-shelly-em.py main(): load_config, the validation, the spawning
MainEM ==
    /\ Family = "EM"
    /\ mainpc = "start"
    /\ LET code == MainStartEM(cfg)
       IN  IF code # NoExit
           THEN /\ mainpc' = "exited"
                /\ exitCode' = code
                /\ pc' = pc
           ELSE /\ mainpc' = "join"
                /\ exitCode' = exitCode
                /\ pc' = [d \in Devices |-> "init"]
    /\ event' = Ev("main", 0)
    /\ UNCHANGED <<cfg, childExit, dbus, registered, channel_idx, lastUpdate,
                   periodic, jitter, solTimer, ncycles, nwrites>>
    /\ UNCHANGED loopvars

\* run_device in the process of device d, up to mainloop.run()
RunDevice(d) ==
    /\ Family = "EM"
    /\ pc[d] = "init"
    /\ \E r1 \in BootGets :
         \E r2 \in (IF r1.k = "ReadTimeout" THEN BootGets ELSE {r1}) :
            /\ Started(d, InitEM(cfg.devices[d], cfg.SignOfLifeLog, r1, r2))
            /\ event' = BootEv("init", d, _getShellyDataEM(r1, r2).gets, r2)
    /\ UNCHANGED <<cfg, mainpc, exitCode, lastUpdate, ncycles, nwrites>>
    /\ UNCHANGED loopvars

\* main(): p.join() returns for every process, main() returns
MainJoin ==
    /\ Family = "EM"
    /\ mainpc = "join"
    /\ \A d \in Devices : pc[d] = "dead"
    /\ mainpc' = "exited"
    /\ exitCode' = 0
    /\ event' = Ev("join", 0)
    /\ UNCHANGED <<cfg, pc, childExit, dbus, registered, channel_idx, lastUpdate,
                   periodic, jitter, solTimer, ncycles, nwrites>>
    /\ UNCHANGED loopvars

\* dbus-shelly-3em-smartmeter.py main(), up to mainloop.run()
Main3EM ==
    /\ Family = "3EM"
    /\ mainpc = "start"
    /\ \E r1 \in BootGets :
         LET res == Init3EM(cfg, r1)
         IN  /\ Started(1, res)
             /\ mainpc' = IF res.alive THEN "loop" ELSE "exited"
             /\ exitCode' = res.exit
             /\ event' = BootEv("main", 1, <<r1.k>>, r1)
    /\ UNCHANGED <<cfg, lastUpdate, ncycles, nwrites>>
    /\ UNCHANGED loopvars

\* a _start_periodic that would tell the main loop to keep calling it
_start_periodicReturns_True == TRUE

\* what _start_periodic returns to the main loop: False, its timer is removed
_start_periodicReturns == FALSE

\* _start_periodic, the callback of the one-shot jitter timer: it registers
\* the periodic timer if self._periodic_id is None
_start_periodic(d) ==
    /\ pc[d] = "loop"
    /\ jitter[d] > 0
    /\ periodic' = [periodic EXCEPT ![d] = IF @ = 0 THEN 1 ELSE @]
    /\ jitter' = [jitter EXCEPT ![d] = IF _start_periodicReturns THEN @ ELSE 0]
    /\ event' = Ev("start_periodic", d)
    /\ UNCHANGED <<cfg, mainpc, exitCode, pc, childExit, dbus, registered,
                   channel_idx, lastUpdate, solTimer, ncycles, nwrites>>
    /\ UNCHANGED loopvars

PollGets == IF Family = "EM" THEN GetsOf(BodiesEM) ELSE GetsOf(Bodies3EM)

\* the few responses used where the startup is what is explored
FewGets ==
    {GetRaises("ConnectionError"),
     Response(200, IF Family = "EM" THEN Body(JAbsent, <<ReadingA, ReadingC>>)
                   ELSE SampleX)}

\* one poll cycle of device d with the responses r1 (and r2 to a retry)
CycleOf(d, r1, r2) ==
    IF Family = "EM" THEN _updateEM(dbus[d], channel_idx[d], r1, r2)
    ELSE _update3EM(dbus[d], L1Position(cfg.devices[d]), r1)

\* an _update that would tell the main loop to drop the timer after a fault
_updateReturns_FalseOnFault(outcome) == outcome # "fault"

\* what _update returns to the main loop: True on every path (the skip of an
\* invalid sample, the end of the try statement), so the timer stays armed
_updateReturns(outcome) == TRUE

\* the timers of device d once a callback of its periodic timer returned:
\* GLib removes a timeout source whose callback returns False
TimersAfter(d, keep) == [periodic EXCEPT ![d] = IF keep THEN @ ELSE 0]

\* the effect of one poll cycle of device d: responses r1 (and r2 to a retry);
\* stamp is the time written to _lastUpdate on a publish
UpdateEffect(d, gets, stamp) ==
    \E r1 \in gets :
       \E r2 \in (IF Family = "EM" /\ r1.k = "ReadTimeout" THEN gets ELSE {r1}) :
          LET c == CycleOf(d, r1, r2)
          IN  /\ dbus' = [dbus EXCEPT ![d] = c.db]
              /\ lastUpdate' = [lastUpdate EXCEPT ![d] =
                                  IF c.outcome = "published" THEN stamp ELSE @]
              /\ periodic' = TimersAfter(d, _updateReturns(c.outcome))
              /\ event' = [Ev("update", d) EXCEPT
                              !.gets = c.gets, !.exc = c.exc, !.outcome = c.outcome,
                              !.valid = c.valid,
                              !.cls = FetchClass(Family, r2, channel_idx[d])]

\* _update, the callback of the periodic timer, from its dispatch to its return
_update(d, gets) ==
    /\ pc[d] = "loop"
    /\ periodic[d] > 0
    /\ ncycles < MaxCycles
    /\ UpdateEffect(d, gets, ncycles + 1)
    /\ ncycles' = ncycles + 1
    /\ UNCHANGED <<cfg, mainpc, exitCode, pc, childExit, registered, channel_idx,
                   jitter, solTimer, nwrites>>
    /\ UNCHANGED loopvars

\* _signOfLife, the callback of the liveness timer: it only reads and logs
\* a _signOfLife that would tell the main loop to drop its timer
_signOfLifeReturns_False == FALSE

\* what _signOfLife returns to the main loop: True, the timer stays armed
_signOfLifeReturns == TRUE

\* the liveness timers once a callback of device d's returned
SolTimerAfter(d, keep) == [solTimer EXCEPT ![d] = IF keep THEN @ ELSE NoTimer]

_signOfLife(d) ==
    /\ pc[d] = "loop"
    /\ solTimer[d] # NoTimer
    /\ solTimer' = SolTimerAfter(d, _signOfLifeReturns)
    /\ event' = Ev("sign_of_life", d)
    /\ UNCHANGED <<cfg, mainpc, exitCode, pc, childExit, dbus, registered,
                   channel_idx, lastUpdate, periodic, jitter, ncycles,
                   nwrites>>
    /\ UNCHANGED loopvars

\* a change callback that would refuse every change
_handlechangedvalue_Refuse(path, value) == FALSE

\* _handlechangedvalue: "accept the change"
_handlechangedvalue(path, value) == TRUE

\* SetValue of a bus client on an exported path: refused on a path that is not
\* writeable, else applied when the onchangecallback returns True
SetValue(db, writeable, path, value) ==
    IF path \notin writeable THEN db
    ELSE IF _handlechangedvalue(path, value) THEN [db EXCEPT ![path] = value]
    ELSE db

ExtPaths == {"/Ac/Power", "/Ac/Energy/Forward", UpdateIndex}
ExtValues == {Whole(7)}

\* a write request of another bus client, served by the main loop
ExternalWrite(d) ==
    /\ pc[d] = "loop"
    /\ registered[d]
    /\ nwrites < MaxExtWrites
    /\ \E path \in ExtPaths, value \in ExtValues :
         /\ dbus' = [dbus EXCEPT ![d] = SetValue(@, WriteablePaths(Family), path, value)]
         /\ event' = [Ev("write", d) EXCEPT !.path = path, !.value = value]
    /\ nwrites' = nwrites + 1
    /\ UNCHANGED <<cfg, mainpc, exitCode, pc, childExit, registered, channel_idx,
                   lastUpdate, periodic, jitter, solTimer, ncycles>>
    /\ UNCHANGED loopvars

RunDevices == \E d \in Devices : RunDevice(d)
StartPeriodics == \E d \in Devices : _start_periodic(d)
Updates == \E d \in Devices : _update(d, PollGets)
FewUpdates == \E d \in Devices : _update(d, FewGets)
SignsOfLife == \E d \in Devices : _signOfLife(d)
ExternalWrites == \E d \in Devices : ExternalWrite(d)

Next ==
    \/ MainEM
    \/ RunDevices
    \/ MainJoin
    \/ Main3EM
    \/ StartPeriodics
    \/ Updates
    \/ SignsOfLife
    \/ ExternalWrites

Init == InitWith(CoreConfigs)
Spec == Init /\ [][Next]_vars

\* every configuration, with few responses to the poll cycles
NextStartup ==
    \/ MainEM
    \/ RunDevices
    \/ MainJoin
    \/ Main3EM
    \/ StartPeriodics
    \/ FewUpdates
    \/ SignsOfLife
    \/ ExternalWrites

InitStartup == InitWith(Configs)
SpecStartup == InitStartup /\ [][NextStartup]_vars

(***************************************************************************)
(* The main-loop view.  Each process runs one GLib main loop              *)
(* (mainloop.run()), which dispatches one callback at a time; _update      *)
(* calls session.get, which blocks until the response or the timeout, so   *)
(* the poll cycle is split here at that wait: its dispatch, then its       *)
(* return.  A timer whose period elapses becomes ready and waits in due    *)
(* for the loop; a source that is ready already is not ready twice.        *)
(***************************************************************************)
\* a loop that would dispatch a callback while another one is inside a wait
CanDispatch_Reentrant(d) == TRUE

CanDispatch(d) == running[d] = "idle"

TimerNames == {"update", "sol"}

\* the period of timer t of device d elapses
TimerExpires(d, t) ==
    /\ pc[d] = "loop"
    /\ t \notin due[d]
    /\ IF t = "update" THEN periodic[d] > 0 ELSE solTimer[d] # NoTimer
    /\ due' = [due EXCEPT ![d] = @ \cup {t}]
    /\ event' = [Ev("expire", d) EXCEPT !.path = t]
    /\ UNCHANGED <<cfg, mainpc, exitCode, pc, childExit, dbus, registered,
                   channel_idx, lastUpdate, periodic, jitter, solTimer, ncycles,
                   nwrites, running, outstanding, call>>

\* the loop calls _update, which sends the GET and waits
DispatchUpdate(d) ==
    /\ pc[d] = "loop"
    /\ CanDispatch(d)
    /\ "update" \in due[d]
    /\ periodic[d] > 0
    /\ ncycles < MaxCycles
    /\ running' = [running EXCEPT ![d] = "update"]
    /\ due' = [due EXCEPT ![d] = @ \ {"update"}]
    /\ outstanding' = [outstanding EXCEPT ![d] = @ + 1]
    /\ ncycles' = ncycles + 1
    /\ event' = Ev("dispatch_update", d)
    /\ UNCHANGED <<cfg, mainpc, exitCode, pc, childExit, dbus, registered,
                   channel_idx, lastUpdate, periodic, jitter, solTimer, nwrites,
                   call>>

\* the GET returns or times out; _update runs to its return
ReturnUpdate(d, gets) ==
    /\ pc[d] = "loop"
    /\ running[d] = "update"
    /\ UpdateEffect(d, gets, ncycles)
    /\ running' = [running EXCEPT ![d] = "idle"]
    /\ outstanding' = [outstanding EXCEPT ![d] = @ - 1]
    /\ UNCHANGED <<cfg, mainpc, exitCode, pc, childExit, registered, channel_idx,
                   jitter, solTimer, ncycles, nwrites, due, call>>

\* the loop calls _signOfLife, which logs and returns
DispatchSignOfLife(d) ==
    /\ pc[d] = "loop"
    /\ CanDispatch(d)
    /\ "sol" \in due[d]
    /\ solTimer[d] # NoTimer
    /\ due' = [due EXCEPT ![d] = @ \ {"sol"}]
    /\ solTimer' = SolTimerAfter(d, _signOfLifeReturns)
    /\ event' = Ev("sign_of_life", d)
    /\ UNCHANGED <<cfg, mainpc, exitCode, pc, childExit, dbus, registered,
                   channel_idx, lastUpdate, periodic, jitter, ncycles, nwrites,
                   running, outstanding, call>>

\* responses that end a poll cycle in each of its ways: a publish, the skip
\* of an invalid sample (EM), a zeroing, a fault that is only logged
LoopGets ==
    {GetRaises("ReadTimeout"), GetRaises("ConnectionError"), Response(500, NoBody)}
    \cup (IF Family = "EM"
          THEN {Response(200, Body(JAbsent, <<r, Mirror(r)>>)) :
                  r \in {ReadingA, [ReadingB EXCEPT !.is_valid = JBool(FALSE)],
                         [ReadingA EXCEPT !.power = JStr],
                         [ReadingA EXCEPT !.power = JList]}}
          ELSE {Response(200, b) :
                  b \in {SampleX, WithField(SampleX, 2, "voltage", JAbsent),
                         [NoBody EXCEPT !.shape = "list"]}})

TimersExpire == \E d \in Devices, t \in TimerNames : TimerExpires(d, t)
DispatchUpdates == \E d \in Devices : DispatchUpdate(d)
ReturnUpdates == \E d \in Devices : ReturnUpdate(d, LoopGets)
DispatchSignsOfLife == \E d \in Devices : DispatchSignOfLife(d)

NextLoop ==
    \/ MainEM
    \/ RunDevices
    \/ Main3EM
    \/ StartPeriodics
    \/ TimersExpire
    \/ DispatchUpdates
    \/ ReturnUpdates
    \/ DispatchSignsOfLife

SpecLoop == Init /\ [][NextLoop]_vars

\* What the scheduling guarantees: the one-shot start timer and the periodic
\* timer expire while they are armed, the loop dispatches a ready source when
\* it is idle, and a GET that waits ends at the latest by its timeout=.
UpdateTimerExpires == \E d \in Devices : TimerExpires(d, "update")
FetchTimesOut == \E d \in Devices : ReturnUpdate(d, {GetRaises("ReadTimeout")})

SpecLoopFair ==
    /\ SpecLoop
    /\ WF_vars(StartPeriodics)
    /\ WF_vars(UpdateTimerExpires)
    /\ WF_vars(DispatchUpdates)
    /\ WF_vars(FetchTimesOut)

(***************************************************************************)
(* The pure helpers, called on their own: a call is drawn from a bounded   *)
(* set of arguments, the step applies the helper and keeps its result.     *)
(***************************************************************************)
Powers == {Whole(1500), Whole(0 - 300), Whole(40), Whole(0), JNaN, JInf}
Reactives == {Whole(200), Whole(0 - 30), Whole(0), JNaN}
Voltages == {Whole(230), Whole(1), Whole(0), Whole(0 - 230), JNaN, JInf}

CalcCurrentCalls ==
    {[fn |-> "_calc_current", power |-> p, reactive |-> q, voltage |-> v,
      done |-> FALSE, ret |-> JAbsent] :
        p \in Powers, q \in Reactives, v \in Voltages}

\* samples of 0 to 4 channels, every channel different from the others
Channels ==
    SampleX.emeters.items \o <<Reading3(233, 4, 700, 4000, 300)>>
L1Positions ==
    {NoKey, <<"1">>, <<"2">>, <<"3">>, <<"5">>, <<"0">>, <<"x">>,
     <<"2", ".", "0">>, <<"-", "1">>}

RemapCalls ==
    {[fn |-> "remap", L1Position |-> k,
      md |-> [SampleX EXCEPT !.emeters.items = SubSeq(Channels, 1, n)],
      done |-> FALSE, ret |-> Raise("pending")] :
        k \in L1Positions, n \in 0..Len(Channels)}

\* lines 176-188 of _update on the sample md, with the configured L1Position
RemapSample(md, l1position) ==
    RemapL1(md, ClampL1(L1Position([Dev3 EXCEPT !.L1Position = l1position])))

CallCalcCurrent ==
    /\ call.fn = "_calc_current"
    /\ ~call.done
    /\ call' = [call EXCEPT !.done = TRUE,
                            !.ret = _calc_current(call.power, call.reactive,
                                                  call.voltage)]
    /\ UNCHANGED <<cfg, mainpc, exitCode, pc, childExit, dbus, registered,
                   channel_idx, lastUpdate, periodic, jitter, solTimer, event,
                   ncycles, nwrites, running, due, outstanding>>

CallRemap ==
    /\ call.fn = "remap"
    /\ ~call.done
    /\ call' = [call EXCEPT !.done = TRUE,
                            !.ret = RemapSample(call.md, call.L1Position)]
    /\ UNCHANGED <<cfg, mainpc, exitCode, pc, childExit, dbus, registered,
                   channel_idx, lastUpdate, periodic, jitter, solTimer, event,
                   ncycles, nwrites, running, due, outstanding>>

\* a sample of a device that reports only the instantaneous power p
PowerOnly(p) ==
    Reading(JBool(TRUE), Whole(p), Whole(230), Whole(0), JAbsent, JAbsent, JAbsent)

\* the responses the poll cycles called on their own are given
CallGets(fam) ==
    {GetRaises("ConnectionError"), Response(500, NoBody)}
    \cup (IF fam = "EM"
          THEN {Response(200, Body(JAbsent, <<r, Mirror(r)>>)) :
                  r \in {ReadingA, ReadingB, PowerOnly(7200), PowerOnly(0 - 7200),
                         [ReadingB EXCEPT !.is_valid = JBool(FALSE)],
                         [ReadingA EXCEPT !.power = JList]}}
          ELSE {Response(200, b) :
                  b \in {SampleX, SampleY, WithField(SampleX, 3, "total", JStr),
                         [NoBody EXCEPT !.shape = "list"]}})

\* what a service holds when a poll cycle begins: the paths as __init__ left
\* them or as the publish of an earlier sample left them, and every value
\* /UpdateIndex takes
PriorDbus(fam) ==
    LET published ==
            IF fam = "EM"
            THEN {PublishEM(InitialDbus(fam), Whole(1500), Whole(230), Whole(6),
                            Whole(kwh), Whole(kwh \div 2)) : kwh \in {2, 500}}
            ELSE {_update3EM(InitialDbus(fam), 1, Response(200, b)).db :
                    b \in {SampleX, SampleY}}
    IN  published
        \cup {[InitialDbus(fam) EXCEPT ![UpdateIndex] = Num(k)] :
                k \in 0..(UpdateIndexModulus - 1)}

\* sel: the selected channel (EM), the configured L1 position (3EM)
UpdateCalls ==
    {[fn |-> "_update", family |-> fam, db |-> db, sel |-> sel, r1 |-> r1,
      done |-> FALSE, ret |-> Cycle(db, <<>>, "none", "pending", JAbsent)] :
        fam \in {"EM"}, db \in PriorDbus("EM"), sel \in {0, 1}, r1 \in CallGets("EM")}
    \cup
    {[fn |-> "_update", family |-> fam, db |-> db, sel |-> sel, r1 |-> r1,
      done |-> FALSE, ret |-> Cycle(db, <<>>, "none", "pending", JAbsent)] :
        fam \in {"3EM"}, db \in PriorDbus("3EM"), sel \in {1, 2},
        r1 \in CallGets("3EM")}

\* one poll cycle on the paths call.db with the response call.r1
CallUpdate ==
    /\ call.fn = "_update"
    /\ ~call.done
    /\ call' = [call EXCEPT !.done = TRUE,
                            !.ret = IF call.family = "EM"
                                    THEN _updateEM(call.db, call.sel, call.r1, call.r1)
                                    ELSE _update3EM(call.db, call.sel, call.r1)]
    /\ UNCHANGED <<cfg, mainpc, exitCode, pc, childExit, dbus, registered,
                   channel_idx, lastUpdate, periodic, jitter, solTimer, event,
                   ncycles, nwrites, running, due, outstanding>>

InitPure ==
    /\ InitProgram({Config3EM(Dev3)})
    /\ \/ call \in CalcCurrentCalls
       \/ call \in RemapCalls
       \/ call \in UpdateCalls

NextPure ==
    \/ CallCalcCurrent
    \/ CallRemap
    \/ CallUpdate

SpecPure == InitPure /\ [][NextPure]_vars

(***************************************************************************)
(* Vocabulary of the properties.                                           *)
(***************************************************************************)
FetchFailures == {"Unreachable", "HttpError", "MalformedResponse", "NoChannelData"}
Quantities(paths, q) == {PhasePath(ph, q) : ph \in paths}

\* the power data points, the power/current/voltage data points, the energy
\* data points of a device of the family
PowerPaths(fam) == {"/Ac/Power"} \cup Quantities(Phases(fam), "Power")
OutputPaths(fam) ==
    {"/Ac/Power", "/Ac/Current", "/Ac/Voltage"}
    \cup Quantities(Phases(fam), "Power")
    \cup Quantities(Phases(fam), "Current")
    \cup Quantities(Phases(fam), "Voltage")
AggregateEnergyPaths == {"/Ac/Energy/Forward", "/Ac/Energy/Reverse"}
EnergyPaths(fam) ==
    AggregateEnergyPaths
    \cup (IF fam = "EM" THEN {}
          ELSE Quantities(Phases(fam), "Energy/Forward")
               \cup Quantities(Phases(fam), "Energy/Reverse"))

\* the sum of the current data points of the phases the device has
PhaseCurrentSum(db, fam) ==
    IF fam = "EM" THEN db["/Ac/L1/Current"]
    ELSE PyAdd(PyAdd(db["/Ac/L1/Current"], db["/Ac/L2/Current"]), db["/Ac/L3/Current"])

(***************************************************************************)
(* C1.  A poll cycle whose fetch fails, whatever the failure kind          *)
(* (Unreachable, HttpError, MalformedResponse, NoChannelData), leaves the  *)
(* device's power data points 0 and its forward/reverse energy data points *)
(* as they were.                                                           *)
(***************************************************************************)
C1_FetchFailureZeroesPower ==
    [][(event'.op = "update" /\ event'.cls \in FetchFailures) =>
          /\ \A p \in PowerPaths(Family) : dbus'[event'.dev][p] = Num(0)
          /\ \A p \in EnergyPaths(Family) :
                dbus'[event'.dev][p] = dbus[event'.dev][p]]_vars

(***************************************************************************)
(* C2.  After a poll cycle /UpdateIndex is (value before + 1) mod 256,     *)
(* whatever the outcome (publish, fetch failure, derivation fault), except *)
(* after a cycle that skipped a sample flagged invalid: then it is the     *)
(* value before.                                                           *)
(***************************************************************************)
C2_UpdateIndexStepsOnEveryOutcome ==
    [][event'.op = "update" =>
          dbus'[event'.dev][UpdateIndex] =
             IF event'.outcome = "skipped" THEN dbus[event'.dev][UpdateIndex]
             ELSE Num((dbus[event'.dev][UpdateIndex].v + 1) % 256)]_vars

(***************************************************************************)
(* C3.  After a cycle whose fetch found the device unreachable (so after   *)
(* each of any number of consecutive ones) every power, current and        *)
(* voltage data point, aggregate and per phase, is 0, and the forward and  *)
(* reverse energy data points are what they were before the failure.       *)
(***************************************************************************)
C3_UnreachableZeroesOutputsKeepsEnergy ==
    [][(event'.op = "update" /\ event'.cls = "Unreachable") =>
          /\ \A p \in OutputPaths(Family) : dbus'[event'.dev][p] = Num(0)
          /\ \A p \in EnergyPaths(Family) :
                dbus'[event'.dev][p] = dbus[event'.dev][p]]_vars

(***************************************************************************)
(* C4.  A poll cycle whose sample carries is_valid = false changes no      *)
(* published data point and not the update-sequence counter.               *)
(***************************************************************************)
C4_InvalidSampleChangesNothing ==
    [][(event'.op = "update" /\ event'.cls = "Sample"
        /\ event'.valid = JBool(FALSE)) =>
          dbus'[event'.dev] = dbus[event'.dev]]_vars

(***************************************************************************)
(* C5.  A poll cycle whose fetch succeeds, but in which processing the     *)
(* sample raises (a field is missing, of the wrong type or not numeric),   *)
(* leaves the whole published state as it was.                             *)
(***************************************************************************)
C5_ProcessingFailureChangesNothing ==
    [][(event'.op = "update" /\ event'.cls = "Sample" /\ event'.exc # "none") =>
          dbus'[event'.dev] = dbus[event'.dev]]_vars

(***************************************************************************)
(* C6.  No poll cycle lowers the published forward energy or the published *)
(* reverse energy, also when the device's own counter is lower than in an  *)
(* earlier sample.                                                         *)
(***************************************************************************)
C6_EnergyNeverDecreases ==
    [][event'.op = "update" =>
          \A p \in AggregateEnergyPaths :
             dbus'[event'.dev][p].v >= dbus[event'.dev][p].v]_vars

(***************************************************************************)
(* C7.  After a poll cycle that published a sample the aggregate voltage   *)
(* is the phase-1 voltage and the aggregate current is the sum of the      *)
(* phase currents.                                                         *)
(***************************************************************************)
C7_AggregatesMatchPhases ==
    (event.op = "update" /\ event.outcome = "published") =>
        /\ dbus[event.dev]["/Ac/Voltage"] = dbus[event.dev]["/Ac/L1/Voltage"]
        /\ dbus[event.dev]["/Ac/Current"] = PhaseCurrentSum(dbus[event.dev], Family)

(***************************************************************************)
(* C8.  The fetch of a poll cycle issues at most two GETs; every GET that  *)
(* is followed by another one ended in a read timeout, so a second GET     *)
(* happens only after a read timeout of the first, its failure is not      *)
(* followed by a third, and an HTTP error status or a malformed body is    *)
(* never followed by another GET.                                          *)
(***************************************************************************)
C8_AtMostOneRetryAfterReadTimeout ==
    event.op = "update" =>
        /\ Len(event.gets) \in {1, 2}
        /\ \A i \in 1..(Len(event.gets) - 1) : event.gets[i] = "ReadTimeout"

\* a read timeout was retried, the retry timed out too and the cycle zeroed
C8_Witness ==
    /\ event.op = "update"
    /\ event.gets = <<"ReadTimeout", "ReadTimeout">>
    /\ event.outcome = "zeroed"

LacksRequiredSection(c) ==
    IF c.family = "EM" THEN ~c.hasGlobal \/ Len(c.devices) = 0
    ELSE ~c.hasOnPremise

IsInteger(s) == s # NoKey /\ PyInt(s).exc = "none"

HasNonIntegerInstance(c) ==
    \E i \in 1..Len(c.devices) : ~IsInteger(c.devices[i].DeviceInstance)

HasDuplicateInstance(c) ==
    \E i, j \in 1..Len(c.devices) :
        /\ i # j
        /\ IsInteger(c.devices[i].DeviceInstance)
        /\ IsInteger(c.devices[j].DeviceInstance)
        /\ PyInt(c.devices[i].DeviceInstance).n = PyInt(c.devices[j].DeviceInstance).n

C10_BadConfigurationExitsNonZero ==
    (LacksRequiredSection(cfg) \/ HasNonIntegerInstance(cfg) \/ HasDuplicateInstance(cfg)) =>
        /\ \A d \in Devices : pc[d] \in {"unborn", "dead"} /\ periodic[d] = 0
        /\ mainpc # "start" => (mainpc = "exited" /\ exitCode > 0)

(***************************************************************************)
(* C11.  When a configured device has a role outside the allowed set, no   *)
(* device, that one or another, runs a poll cycle, and the program ends    *)
(* with a non-zero exit status.                                            *)
(***************************************************************************)
HasDisallowedRole(c) ==
    \E i \in 1..Len(c.devices) :
        Lower(Strip(ConfigGet(c.devices[i].Role, GridStr))) \notin allowed_roles

C11_DisallowedRoleExitsNonZeroBeforePolling ==
    HasDisallowedRole(cfg) =>
        /\ ncycles = 0
        /\ mainpc = "exited" => exitCode > 0

(***************************************************************************)
(* C12.  After a poll cycle, whatever its outcome (publish, skip, zeroing  *)
(* after a failed fetch, fault that is only logged), the periodic timer is *)
(* still armed and the process still runs, and the next poll cycle of the  *)
(* device starts (up to the number of cycles the model follows).           *)
(***************************************************************************)
C12_NextCycleAlwaysStarts ==
    (event.op = "update" /\ ncycles < MaxCycles)
        ~> (event.op = "dispatch_update" /\ periodic[event.dev] > 0
            /\ pc[event.dev] = "loop")

\* a cycle that published nothing was followed by the dispatch of the next one
C12_Witness ==
    /\ event.op = "dispatch_update"
    /\ ncycles >= 2
    /\ periodic[event.dev] > 0
    /\ pc[event.dev] = "loop"
    /\ lastUpdate[event.dev] = 0

(***************************************************************************)
(* C13.  A device has at most one poll cycle outstanding: while a cycle    *)
(* waits for its fetch, the expiry of the periodic timer starts no second  *)
(* cycle, however long the fetch lasts.                                    *)
(***************************************************************************)
C13_AtMostOneCycleOutstanding ==
    \A d \in Devices :
        /\ outstanding[d] \in {0, 1}
        /\ outstanding[d] = 1 <=> running[d] = "update"

\* the periodic timer expired while the cycle still waits for its fetch
C13_Witness ==
    \E d \in Devices :
        /\ running[d] = "update"
        /\ "update" \in due[d]
        /\ outstanding[d] = 1
        /\ event.op = "expire"

(***************************************************************************)
(* C14.  A reader never sees a torn update: when a poll cycle changed a    *)
(* data point, the cycle was a complete publish or a complete zeroing and  *)
(* the update-sequence counter advanced with it.                           *)
(***************************************************************************)
C14_NoTornUpdate ==
    [][(event'.op = "update"
        /\ \E p \in DOMAIN dbus[event'.dev] \ {UpdateIndex} :
              dbus'[event'.dev][p] # dbus[event'.dev][p]) =>
          /\ event'.outcome \in {"published", "zeroed"}
          /\ dbus'[event'.dev][UpdateIndex] # dbus[event'.dev][UpdateIndex]]_vars

(***************************************************************************)
(* C15.  A liveness report that is due is not kept waiting by the poll     *)
(* cycle: it can be dispatched at once, also while the cycle's fetch waits *)
(* for the device.                                                         *)
(***************************************************************************)
C15_DueReportNeverWaitsForCycle ==
    \A d \in Devices : "sol" \in due[d] => CanDispatch(d)

(***************************************************************************)
(* C16.  A liveness report changes no data point, not the update-sequence  *)
(* counter and not the last-success timestamp, and its timer stays armed.  *)
(***************************************************************************)
C16_SignOfLifeChangesNothing ==
    [][event'.op = "sign_of_life" =>
          /\ dbus' = dbus
          /\ lastUpdate' = lastUpdate
          /\ solTimer' = solTimer
          /\ solTimer'[event'.dev] # NoTimer
          /\ periodic' = periodic]_vars

\* a report that ran after a sample was published
C16_Witness ==
    /\ event.op = "sign_of_life"
    /\ lastUpdate[event.dev] > 0
    /\ dbus[event.dev][UpdateIndex] # Num(0)
    /\ solTimer[event.dev] # NoTimer

(***************************************************************************)
(* C17.  With a configured liveness interval of 0 no liveness timer is     *)
(* registered and no liveness report is emitted.                           *)
(***************************************************************************)
LivenessIntervalIsZero(c) ==
    LET sol == PyIntOrZero(Strip(ConfigGet(c.SignOfLifeLog, <<"0">>)))
    IN  sol.exc = "none" /\ sol.n = 0

C17_ZeroIntervalDisablesLiveness ==
    LivenessIntervalIsZero(cfg) =>
        /\ \A d \in Devices : solTimer[d] = NoTimer
        /\ event.op # "sign_of_life"

(***************************************************************************)
(* C18.  A step of one device (its startup or the end of its process, a    *)
(* poll cycle with any outcome, its timers, a write to it) leaves every    *)
(* other device's data points, counter, timestamps, timers and process as  *)
(* they were, so the other devices keep polling.                           *)
(***************************************************************************)
C18_DevicesAreIsolated ==
    [][event'.dev \in Devices =>
          \A e \in Devices \ {event'.dev} :
             /\ dbus'[e] = dbus[e]
             /\ lastUpdate'[e] = lastUpdate[e]
             /\ periodic'[e] = periodic[e]
             /\ jitter'[e] = jitter[e]
             /\ solTimer'[e] = solTimer[e]
             /\ pc'[e] = pc[e]
             /\ childExit'[e] = childExit[e]]_vars

\* one device's process ended at startup, the other one publishes
C18_Witness ==
    \E d, e \in Devices :
        /\ d # e
        /\ pc[d] = "dead"
        /\ childExit[d] = 1
        /\ pc[e] = "loop"
        /\ event.op = "update"
        /\ event.dev = e
        /\ event.outcome = "published"

(***************************************************************************)
(* C19.  _calc_current(p, q, v) is 0 when v <= 0 or one of p, q, v is not  *)
(* finite; otherwise it is sqrt(p^2 + q^2) / v (here: the root taken to    *)
(* whole units, the quotient to three decimals, both rounded down), so it  *)
(* is never negative, also for a negative power.                           *)
(***************************************************************************)
C19_CalcCurrent ==
    (call.fn = "_calc_current" /\ call.done) =>
        LET p == call.power
            q == call.reactive
            v == call.voltage
            P == p.v \div FixedPoint
            Q == q.v \div FixedPoint
            i == call.ret
        IN  /\ i.t = "num"
            /\ i.v >= 0
            /\ IF {p.t, q.t, v.t} \cap NonFinite # {} \/ v.v <= 0 THEN i.v = 0
               ELSE \E h \in 0..2000 :
                       /\ h * h <= P * P + Q * Q
                       /\ P * P + Q * Q < (h + 1) * (h + 1)
                       /\ i.v * v.v <= h * FixedPoint * FixedPoint
                       /\ h * FixedPoint * FixedPoint < (i.v + 1) * v.v

\* an exported power of -300 W with 30 var at 230 V gives a positive current
C19_Witness ==
    /\ call.fn = "_calc_current"
    /\ call.done
    /\ call.power = Whole(0 - 300)
    /\ call.reactive = Whole(0 - 30)
    /\ call.voltage = Whole(230)
    /\ call.ret.v > 0

(***************************************************************************)
(* C20.  With at least 3 channels an L1 position of 2 exchanges channels 0 *)
(* and 1, one of 3 exchanges channels 0 and 2, every other channel stays   *)
(* in place; a position of 1, one outside 1..3, one that is no integer or  *)
(* a sample of fewer than 3 channels leaves the order as it is.  The       *)
(* result always holds the channels of the input, each once.               *)
(***************************************************************************)
ChannelCount(items, x) == Cardinality({k \in 1..Len(items) : items[k] = x})

C20_RemapIsAPermutation ==
    (call.fn = "remap" /\ call.done) =>
        LET old == call.md.emeters.items
            n == Len(old)
            k == CASE call.L1Position = <<"2">> /\ n >= 3 -> 2
                   [] call.L1Position = <<"3">> /\ n >= 3 -> 3
                   [] OTHER -> 1
        IN  /\ call.ret.exc = "none"
            /\ LET new == call.ret.val.emeters.items
               IN  /\ Len(new) = n
                   /\ \A j \in 1..n :
                         new[j] = IF j = 1 THEN old[k]
                                  ELSE IF j = k THEN old[1]
                                  ELSE old[j]
                   /\ \A j \in 1..n : ChannelCount(new, old[j]) = 1
            /\ call.ret.val = [call.md EXCEPT !.emeters.items = call.ret.val.emeters.items]

\* position 2 on a sample of 3 channels: 0 and 1 exchanged, channel 2 in place
C20_Witness ==
    /\ call.fn = "remap"
    /\ call.done
    /\ call.L1Position = <<"2">>
    /\ Len(call.md.emeters.items) = 3
    /\ call.ret.val.emeters.items =
          <<call.md.emeters.items[2], call.md.emeters.items[1],
            call.md.emeters.items[3]>>

(***************************************************************************)
(* C21.  The channel a single-channel device selected is 0 or 1: the       *)
(* configured value when that is the integer 0 or 1, else (out of range,   *)
(* negative, empty, no integer) 0; such a value does not make the startup  *)
(* fail, and the selection stays what it was once the device runs.         *)
(***************************************************************************)
ConfiguredChannel(sec) ==
    LET s == ConfigGet(sec.Channel, <<"0">>)
    IN  IF IsInteger(s) /\ PyInt(s).n \in {0, 1} THEN PyInt(s).n ELSE 0

\* the bootstrap fetch of the startup in event e failed: a failure of the
\* fetch, or a response that carries no device identifier
BootFailed(e) ==
    \/ e.cls \in {"Unreachable", "HttpError", "MalformedResponse"}
    \/ ~PyTruthy(DictGet(e.value, JNull))

C21_ChannelIsZeroOrOne ==
    [][Family = "EM" =>
          \A d \in Devices :
             /\ pc'[d] = "loop" =>
                   /\ channel_idx'[d] \in {0, 1}
                   /\ channel_idx'[d] = ConfiguredChannel(cfg.devices[d])
             /\ pc[d] = "loop" => channel_idx'[d] = channel_idx[d]
             /\ (/\ event'.op = "init"
                 /\ event'.dev = d
                 /\ ~BootFailed(event')
                 /\ [cfg.devices[d] EXCEPT !.Channel = NoKey] = DevA) =>
                   pc'[d] = "loop"]_vars

\* a device configured with channel 2 polls, on channel 0
C21_Witness ==
    /\ Family = "EM"
    /\ Len(cfg.devices) = 1
    /\ cfg.devices[1].Channel = <<"2">>
    /\ pc[1] = "loop"
    /\ channel_idx[1] = 0
    /\ event.op = "update"
    /\ event.outcome = "published"

(***************************************************************************)
(* C22.  After a poll cycle that published a sample the forward energy is  *)
(* the total the device reported, divided by 1000, and the reverse energy  *)
(* the reported returned total, divided by 1000 (a single-channel device:  *)
(* of the selected channel; a three-phase device: of the three channels    *)
(* together), whatever the energy values were before the cycle.            *)
(***************************************************************************)
\* what a channel reports in field fld, in fixed-point Wh; 0 if it reports none
ReportedWh(em, fld) == IF em[fld].t = "num" THEN em[fld].v ELSE 0

\* the channels of the sample a helper call was given
CallChannels == call.r1.body.emeters.items

C22_PassThroughEnergy ==
    (call.fn = "_update" /\ call.done /\ call.ret.outcome = "published") =>
        LET Sum(fld) ==
               IF call.family = "EM" THEN ReportedWh(CallChannels[call.sel + 1], fld)
               ELSE ReportedWh(CallChannels[1], fld) + ReportedWh(CallChannels[2], fld)
                    + ReportedWh(CallChannels[3], fld)
        IN  /\ call.ret.db["/Ac/Energy/Forward"].t = "num"
            /\ call.ret.db["/Ac/Energy/Forward"].v * 1000 = Sum("total")
            /\ call.ret.db["/Ac/Energy/Reverse"].t = "num"
            /\ call.ret.db["/Ac/Energy/Reverse"].v * 1000 = Sum("total_returned")

\* total = 123456 and total_returned = 0 gave 123.456 kWh and 0, after a cycle
\* that had published 500 kWh and 250 kWh
C22_Witness ==
    /\ call.fn = "_update"
    /\ call.done
    /\ call.family = "EM"
    /\ call.db["/Ac/Energy/Forward"] = Whole(500)
    /\ call.db["/Ac/Energy/Reverse"] = Whole(250)
    /\ CallChannels[call.sel + 1].total = Whole(123456)
    /\ CallChannels[call.sel + 1].total_returned = Whole(0)
    /\ call.ret.outcome = "published"
    /\ call.ret.db["/Ac/Energy/Forward"] = Num(123456)
    /\ call.ret.db["/Ac/Energy/Reverse"] = Num(0)

(***************************************************************************)
(* C23.  A device that has started does not poll at once: the start of its *)
(* periodic polling is delayed, by more than 0 ms and less than the poll   *)
(* period of 500 ms, whatever its instance id and channel index.           *)
(***************************************************************************)
C23_StartDelayWithinPollPeriod ==
    \A d \in Devices :
        (event.op \in {"init", "main"} /\ event.dev = d /\ pc[d] = "loop") =>
            /\ periodic[d] = 0
            /\ jitter[d] > 0
            /\ jitter[d] < REFRESH_INTERVAL_MS

(***************************************************************************)
(* C24.  A cycle that published the sample of a device reporting only the  *)
(* instantaneous power adds max(power, 0) * dt / 3,600,000 kWh to the      *)
(* forward energy and max(-power, 0) * dt / 3,600,000 kWh to the reverse   *)
(* energy, so neither decreases and at most one of them grows.  dt is the  *)
(* time since the cycle before, here the nominal poll interval (which also *)
(* stands in for a dt <= 0): 7200 W over 0.5 s are 0.001 kWh.              *)
(***************************************************************************)
ReportsOnlyPower(em) ==
    em.power.t = "num" /\ em.total.t = "absent" /\ em.total_returned.t = "absent"

\* the kWh (fixed point) that watts (fixed point) make in one poll interval
IntervalEnergy(watts) ==
    ((watts \div FixedPoint) * REFRESH_INTERVAL_MS) \div (3600 * FixedPoint)

C24_PowerIsIntegratedOverTime ==
    (/\ call.fn = "_update"
     /\ call.done
     /\ call.family = "EM"
     /\ call.ret.outcome = "published"
     /\ ReportsOnlyPower(CallChannels[call.sel + 1])) =>
        LET power == CallChannels[call.sel + 1].power.v
            forward == call.db["/Ac/Energy/Forward"].v
            reverse == call.db["/Ac/Energy/Reverse"].v
        IN  /\ call.ret.db["/Ac/Energy/Forward"].v =
                  forward + IntervalEnergy(IF power > 0 THEN power ELSE 0)
            /\ call.ret.db["/Ac/Energy/Reverse"].v =
                  reverse + IntervalEnergy(IF power < 0 THEN 0 - power ELSE 0)
            /\ call.ret.db["/Ac/Energy/Forward"].v >= forward
            /\ call.ret.db["/Ac/Energy/Reverse"].v >= reverse

(***************************************************************************)
(* C25.  Whenever the three-phase device's data points exist and no bus    *)
(* client has written to them (after startup, after a publish, after a     *)
(* failed fetch, after a cycle that stopped part-way), the aggregate       *)
(* forward energy is the sum of the three phases' forward energies and the *)
(* aggregate reverse energy the sum of their reverse energies.             *)
(***************************************************************************)
PhaseEnergySum(db, q) ==
    PyAdd(PyAdd(db[PhasePath("L1", q)], db[PhasePath("L2", q)]), db[PhasePath("L3", q)])

C25_AggregateEnergyIsSumOfPhases ==
    \A d \in Devices :
        (Family = "3EM" /\ registered[d] /\ nwrites = 0) =>
            /\ dbus[d]["/Ac/Energy/Forward"] = PhaseEnergySum(dbus[d], "Energy/Forward")
            /\ dbus[d]["/Ac/Energy/Reverse"] = PhaseEnergySum(dbus[d], "Energy/Reverse")

(***************************************************************************)
(* C26.  /UpdateIndex is an integer in 0..255: it is 0 when the service is *)
(* created, a poll cycle leaves it or adds 1 to it, and a cycle that       *)
(* increments it at 255 yields 0.                                          *)
(***************************************************************************)
C26_UpdateIndexWrapsAt256 ==
    (call.fn = "_update" /\ call.done) =>
        LET old == call.db[UpdateIndex].v
            new == call.ret.db[UpdateIndex]
        IN  /\ InitialDbus(call.family)[UpdateIndex] = Num(0)
            /\ new.t = "num"
            /\ new.v \in 0..255
            /\ \/ new.v = old
               \/ new.v = old + 1
               \/ old = 255 /\ new.v = 0
            /\ call.ret.outcome \in {"published", "zeroed"} =>
                  new.v = IF old = 255 THEN 0 ELSE old + 1

\* a publish at /UpdateIndex = 255 gave 0
C26_Witness ==
    /\ call.fn = "_update"
    /\ call.done
    /\ call.db[UpdateIndex] = Num(255)
    /\ call.ret.outcome = "published"
    /\ call.ret.db[UpdateIndex] = Num(0)

(***************************************************************************)
(* C27.  A device never has more than one periodic poll timer.  The start  *)
(* step after the startup delay leaves exactly one registered: it adds the *)
(* timer when there is none, leaves an existing one alone, and is not      *)
(* called again (its own one-shot timer is gone afterwards).               *)
(***************************************************************************)
C27_AtMostOnePeriodicTimer ==
    [][/\ \A d \in Devices : periodic'[d] \in {0, 1}
       /\ event'.op = "start_periodic" =>
             /\ periodic'[event'.dev] = 1
             /\ periodic[event'.dev] = 1 => periodic' = periodic
             /\ jitter'[event'.dev] = 0]_vars

\* the start step ran, its timer is gone, the one periodic timer polls
C27_Witness ==
    /\ event.op = "update"
    /\ cfg.family = "EM"
    /\ ncycles >= 2
    /\ periodic[event.dev] = 1
    /\ jitter[event.dev] = 0

(***************************************************************************)
(* C28.  A device whose bootstrap fetch fails (the fetch raises, or the    *)
(* response carries no device identifier) is abandoned at startup: no      *)
(* timer of it is registered, then or later, no poll cycle, liveness       *)
(* report or start step of it ever runs, and its outputs, which were never *)
(* published, are not zeroed or updated.                                   *)
(***************************************************************************)
\* the step is the startup of a device, with its bootstrap fetch
IsStartup(e) ==
    \/ Family = "EM" /\ e.op = "init"
    \/ Family = "3EM" /\ e.op = "main"

\* device d was abandoned before it had registered anything
Abandoned(d) ==
    /\ pc[d] = "dead"
    /\ ~registered[d]
    /\ dbus[d] = <<>>
    /\ periodic[d] = 0
    /\ jitter[d] = 0
    /\ solTimer[d] = NoTimer

C28_FailedBootstrapAbandonsStartup ==
    [][\A d \in Devices :
          /\ (IsStartup(event') /\ event'.dev = d /\ BootFailed(event')) =>
                Abandoned(d)'
          /\ Abandoned(d) =>
                /\ Abandoned(d)'
                /\ ~(/\ event'.dev = d
                     /\ event'.op \in {"update", "sign_of_life", "start_periodic",
                                       "expire", "dispatch_update", "write"})]_vars

\* the bootstrap fetch of a validly configured EM device timed out twice:
\* its process ended with status 1 and nothing of it is registered
C28_Witness ==
    /\ cfg.devices = <<DevA, DevB>>
    /\ event.op = "init"
    /\ event.gets = <<"ReadTimeout", "ReadTimeout">>
    /\ BootFailed(event)
    /\ Abandoned(event.dev)
    /\ childExit[event.dev] = 1

====
